---- MODULE Spec2Model ----
(***************************************************************************)
(* USASpendPipeline: the three scripts of the repository as one state      *)
(* machine.  A behaviour runs exactly one script, chosen in Init:          *)
(*   "fm"  = Full_Model_Debug.py  fetch_and_model()                        *)
(*   "dbg" = Test.py              fetch_all_debug()                        *)
(*   "v1"  = USAspendV1.py        main() driving iter_usaspending()        *)
(* The search endpoint, the token endpoint and the Power BI endpoint are   *)
(* the environment: each call's outcome is chosen nondeterministically.    *)
(***************************************************************************)
EXTENDS Integers, Sequences, FiniteSets, TLC

(***************************************************************************)
(* Bounds of the model.                                                    *)
(***************************************************************************)
\* most records the search endpoint serves in one page ("limit": 100, scaled)
MaxPageLen == 2
\* most records the search endpoint serves over one run: once they are served
\* every further page is empty, which also ends the uncapped loop of
\* iter_usaspending
MaxTotal == 3
\* main(): batch_size = 500, scaled
batch_size == 2

\* Full_Model_Debug.py and Test.py: MAX_PAGES = 3
MAX_PAGES == 3

(***************************************************************************)
(* JSON values.  Python's None, strings and nested mappings are tagged so  *)
(* that values of different kinds can be compared.                         *)
(***************************************************************************)
None == [null |-> TRUE]
S(s) == [str |-> s]
M(f) == [map |-> f]
EmptyMap == [k \in {} |-> None]

\* Python truthiness of a JSON value: None, "" and {} are falsy
Truthy(v) == v \notin {None, S(""), M(EmptyMap)}

\* Python `a or b`
PyOr(a, b) == IF Truthy(a) THEN a ELSE b

\* dict.get(k) with the default None
Get(d, k) == IF k \in DOMAIN d THEN d[k] ELSE None

\* dict.get(k, default) on an untagged mapping
GetOr(d, k, default) == IF k \in DOMAIN d THEN d[k] ELSE default

(***************************************************************************)
(* The records the search endpoint can serve.                              *)
(***************************************************************************)
Loc1 == M( "address_line1" :> S("123 Main") @@ "address_line2" :> S("")
        @@ "address_line3" :> S("Suite 4") @@ "city_name" :> None
        @@ "state_name" :> S("Ohio") @@ "state_code" :> S("OH")
        @@ "country_name" :> S("USA") )
Loc2 == M( "address_line1" :> S("") @@ "address_line2" :> None
        @@ "city_name" :> S("X") @@ "state_name" :> None
        @@ "state_code" :> None @@ "country_name" :> S("") )
Loc4 == M( "address_line1" :> S("9 Elm") @@ "city_name" :> S("Y")
        @@ "state_name" :> S("Utah") @@ "state_code" :> S("UT")
        @@ "country_name" :> S("USA") )

Rec(aid, rid, rname, loc, acode, aname, scode, sname) ==
       "Award ID" :> S(aid) @@ "Award Amount" :> S("1500.0")
    @@ "Start Date" :> S("2024-10-01") @@ "End Date" :> S("2024-10-07")
    @@ "recipient_id" :> rid @@ "Recipient Name" :> rname
    @@ "Recipient Location" :> loc
    @@ "Recipient State" :> None @@ "Recipient City" :> None
    @@ "Awarding Agency Code" :> acode @@ "Awarding Agency" :> aname
    @@ "Awarding Sub Agency Code" :> scode @@ "Awarding Sub Agency" :> sname
    @@ "Funding Agency" :> aname @@ "Funding Sub Agency" :> sname

\* Six records: three recipients' worth of fragments for R1, a second
\* recipient, and records whose ids are null or empty.  Records 4 to 6 show
\* the same award id and names as records 1 to 3, so the scripts that do not
\* ask for ids and locations receive three distinct records.
Dataset ==
    { Rec("AW1", S("R1"), S("A"), Loc1, S("097"), None, S("5700"), None),
      Rec("AW2", S("R1"), None, Loc2, S("097"), S("DoD"), S("5700"), S("USAF")),
      Rec("AW3", S("R1"), S("B"), None, S("097"), S("Defense"), None, S("Army")),
      Rec("AW1", S("R2"), S("A"), Loc4, S("075"), None, S("7530"), None),
      Rec("AW2", None, None, M(EmptyMap), None, S("DoD"), S("5700"), S("USAF")),
      Rec("AW3", S(""), S("B"), Loc4, S(""), S("Defense"), S(""), S("Army")) }

\* the "fields" each script asks for in its request body
FM_FIELDS ==
    { "Award ID", "Award Amount", "Start Date", "End Date",
      "Awarding Agency", "Awarding Agency Code",
      "Awarding Sub Agency", "Awarding Sub Agency Code",
      "Recipient Name", "recipient_id", "Recipient Location" }
DBG_FIELDS ==
    { "Award ID", "Recipient Name", "Award Amount", "Awarding Agency",
      "Awarding Sub Agency", "Funding Agency", "Funding Sub Agency",
      "Start Date", "End Date", "Recipient State", "Recipient City",
      "Recipient Location" }
V1_FIELDS ==
    { "Award ID", "Recipient Name", "Award Amount", "Awarding Agency",
      "Awarding Sub Agency", "Funding Agency", "Funding Sub Agency",
      "Start Date", "End Date" }

Project(rec, fields) == [k \in (DOMAIN rec) \cap fields |-> rec[k]]

FieldsOf(p) == CASE p = "fm" -> FM_FIELDS
                 [] p = "dbg" -> DBG_FIELDS
                 [] OTHER -> V1_FIELDS

\* the records a script can receive: the data set projected on its fields
Pool(p) == { Project(r, FieldsOf(p)) : r \in Dataset }

Min(a, b) == IF a < b THEN a ELSE b

SeqsUpTo(X, n) == UNION { [1..k -> X] : k \in 0..n }

\* the JSON bodies of a successful response carrying at most n records:
\* {results: [...], page_metadata: {hasNext: bool}}, or a body with neither key
Bodies(p, n) ==
    LET lists == SeqsUpTo(Pool(p), Min(MaxPageLen, n))
    IN    { "results" :> rs @@ "page_metadata" :> ("hasNext" :> b)
              : rs \in lists, b \in BOOLEAN }
       \cup { EmptyMap }

\* one response of the search endpoint: a status and, when ok, a body
Responses(p, n) ==
       { [ok |-> TRUE, data |-> d] : d \in Bodies(p, n) }
  \cup { [ok |-> FALSE, data |-> EmptyMap] }

\* data.get("results", [])
ResultsOf(data) == GetOr(data, "results", << >>)

\* data.get("page_metadata", {}).get("hasNext", False)
HasNext(data) == GetOr(GetOr(data, "page_metadata", EmptyMap), "hasNext", FALSE)

RECURSIVE SumCounts(_)
\* number of records in the pages received so far
SumCounts(rs) ==
    IF rs = << >> THEN 0
    ELSE Len(ResultsOf(Head(rs).data)) + SumCounts(Tail(rs))

(***************************************************************************)
(* Python dicts keep insertion order: a dict is the sequence of its        *)
(* entries [k, v] in insertion order.                                      *)
(***************************************************************************)
DictHas(d, k) == \E n \in 1..Len(d) : d[n].k = k

DictIndex(d, k) == CHOOSE n \in 1..Len(d) : d[n].k = k

\* d.get(k, default)
DictGetOr(d, k, default) == IF DictHas(d, k) THEN d[DictIndex(d, k)].v ELSE default

\* d[k] = v
DictSetAlwaysAppend(d, k, v) == Append(d, [k |-> k, v |-> v])
DictSet(d, k, v) ==
    IF DictHas(d, k) THEN [d EXCEPT ![DictIndex(d, k)].v = v]
    ELSE Append(d, [k |-> k, v |-> v])

\* list(d.values())
DictValues(d) == [n \in 1..Len(d) |-> d[n].v]

DictKeys(d) == { d[n].k : n \in 1..Len(d) }

(***************************************************************************)
(* Full_Model_Debug.py: flatten_location and the rows it builds.           *)
(***************************************************************************)
RECURSIVE JoinComma(_)
\* ", ".join(parts)
JoinComma(parts) ==
    IF parts = << >> THEN ""
    ELSE IF Len(parts) = 1 THEN parts[1].str
    ELSE parts[1].str \o ", " \o JoinComma(Tail(parts))

\* [p for p in addr_parts if p]
NonEmptyKeepsBlank(parts) == SelectSeq(parts, LAMBDA p : p # None)
NonEmpty(parts) == SelectSeq(parts, Truthy)

flatten_location(loc) ==
    IF ~Truthy(loc)
    THEN [Address |-> None, City |-> None, StateName |-> None,
          StateCode |-> None, Country |-> None]
    ELSE LET addr_parts == << Get(loc.map, "address_line1"),
                              Get(loc.map, "address_line2"),
                              Get(loc.map, "address_line3") >>
             address == S(JoinComma(NonEmpty(addr_parts)))
         IN  [Address   |-> PyOr(address, None),
              City      |-> Get(loc.map, "city_name"),
              StateName |-> Get(loc.map, "state_name"),
              StateCode |-> Get(loc.map, "state_code"),
              Country   |-> Get(loc.map, "country_name")]

\* one FactAwards row
FactRow(rec) ==
       "AwardId" :> Get(rec, "Award ID")
    @@ "RecipientId" :> Get(rec, "recipient_id")
    @@ "AwardAmount" :> Get(rec, "Award Amount")
    @@ "StartDate" :> Get(rec, "Start Date")
    @@ "EndDate" :> Get(rec, "End Date")
    @@ "AwardingAgencyCode" :> Get(rec, "Awarding Agency Code")
    @@ "AwardingSubAgencyCode" :> Get(rec, "Awarding Sub Agency Code")

\* `new or current.get(field)`: the value a recipient field takes when a
\* record carries `new` and the entry held `current`
FillFirstWins(new, current) == PyOr(current, new)
Fill(new, current) == PyOr(new, current)

\* body of the DimRecipients loop for one record
\* `if not rid: continue`, `if not sub_code: continue`, `if not a_code: continue`
SkipNever(id) == FALSE
Skip(id) == ~Truthy(id)

MergeRecipient(tbl, rec) ==
    LET rid == Get(rec, "recipient_id")
        loc == flatten_location(PyOr(Get(rec, "Recipient Location"), M(EmptyMap)))
        current == DictGetOr(tbl, rid, EmptyMap)
    IN  IF Skip(rid) THEN tbl
        ELSE DictSet(tbl, rid,
                "RecipientId" :> rid
             @@ "RecipientName" :> Fill(Get(rec, "Recipient Name"), Get(current, "RecipientName"))
             @@ "Address" :> Fill(loc.Address, Get(current, "Address"))
             @@ "City" :> Fill(loc.City, Get(current, "City"))
             @@ "State" :> Fill(loc.StateName, Get(current, "State"))
             @@ "Country" :> Fill(loc.Country, Get(current, "Country")))

\* body of the DimSubAgencies loop for one record
MergeSubAgency(tbl, rec) ==
    LET sub_code == Get(rec, "Awarding Sub Agency Code")
        sub_name == Get(rec, "Awarding Sub Agency")
        agency_code == Get(rec, "Awarding Agency Code")
    IN  IF Skip(sub_code) THEN tbl
        ELSE IF ~DictHas(tbl, sub_code)
        THEN DictSet(tbl, sub_code,
                "AwardingSubAgencyCode" :> sub_code
             @@ "AwardingSubAgencyName" :> sub_name
             @@ "AwardingAgencyCode" :> agency_code)
        ELSE tbl

\* body of the DimAgencies loop for one record
MergeAgency(tbl, rec) ==
    LET a_code == Get(rec, "Awarding Agency Code")
        a_name == Get(rec, "Awarding Agency")
    IN  IF Skip(a_code) THEN tbl
        ELSE IF ~DictHas(tbl, a_code)
        THEN DictSet(tbl, a_code,
                "AwardingAgencyCode" :> a_code
             @@ "AwardingAgencyName" :> a_name)
        ELSE tbl

\* write_csv: nothing is written for an empty list of rows
write_csv(fs, filename, rows) ==
    IF rows = << >> THEN fs ELSE [fs EXCEPT ![filename] = rows]

(***************************************************************************)
(* Test.py and USAspendV1.py: the Power BI row of one record.              *)
(***************************************************************************)
transform_for_powerbi(record) ==
    LET loc == PyOr(Get(record, "Recipient Location"), M(EmptyMap))
    IN     "AwardId" :> Get(record, "Award ID")
        @@ "RecipientName" :> Get(record, "Recipient Name")
        @@ "AwardAmount" :> Get(record, "Award Amount")
        @@ "AwardingAgency" :> Get(record, "Awarding Agency")
        @@ "AwardingSubAgency" :> Get(record, "Awarding Sub Agency")
        @@ "FundingAgency" :> Get(record, "Funding Agency")
        @@ "FundingSubAgency" :> Get(record, "Funding Sub Agency")
        @@ "StartDate" :> Get(record, "Start Date")
        @@ "EndDate" :> Get(record, "End Date")
        @@ "Recipient State" :> Get(loc.map, "state_name")
        @@ "Recipient City" :> Get(loc.map, "city_name")
        @@ "Recipient Country" :> Get(loc.map, "country_name")

transform_for_pbi(record) ==
       "AwardId" :> Get(record, "Award ID")
    @@ "RecipientName" :> Get(record, "Recipient Name")
    @@ "AwardAmount" :> Get(record, "Award Amount")
    @@ "AwardingAgency" :> Get(record, "Awarding Agency")
    @@ "AwardingSubAgency" :> Get(record, "Awarding Sub Agency")
    @@ "FundingAgency" :> Get(record, "Funding Agency")
    @@ "FundingSubAgency" :> Get(record, "Funding Sub Agency")
    @@ "StartDate" :> Get(record, "Start Date")
    @@ "EndDate" :> Get(record, "End Date")

\* fetch_all_debug: (transform_for_powerbi(r) for r in results)
TransformAll(results) == [n \in 1..Len(results) |-> transform_for_powerbi(results[n])]

\* the FactAwards rows of a list of records
FactRows(recs) == [n \in 1..Len(recs) |-> FactRow(recs[n])]

(***************************************************************************)
(* State.                                                                  *)
(***************************************************************************)
VARIABLES
    prog,                \* the script that runs: "fm", "dbg" or "v1"
    pc,                  \* position in the script
    err,                 \* the exception that ended the run, or "none"
    page,                \* the page cursor
    reqs,                \* page numbers sent to the search endpoint, in order
    resps,               \* the responses received, in order
    all_raw,             \* fm, dbg: raw records accumulated
    i,                   \* index of the running for-loop over records
    fact_awards,         \* fm: FactAwards rows
    recipients_by_id,    \* fm: DimRecipients dict
    subagencies_by_code, \* fm: DimSubAgencies dict
    agencies_by_code,    \* fm: DimAgencies dict
    all_transformed,     \* dbg: transformed rows
    files,               \* rows of each CSV file written ("" rows: not written)
    cur,                 \* v1: results of the page the generator is yielding
    batch,               \* v1: the buffer of main()
    sink_calls,          \* v1: the calls made to the Power BI endpoint
    fl_loc,              \* flatten_location called alone: its argument
    fl_out               \* flatten_location called alone: what it returned

vars == << prog, pc, err, page, reqs, resps, all_raw, i, fact_awards,
           recipients_by_id, subagencies_by_code, agencies_by_code,
           all_transformed, files, cur, batch, sink_calls, fl_loc, fl_out >>

fmVars == << fact_awards, recipients_by_id, subagencies_by_code, agencies_by_code >>
v1Vars == << cur, batch, sink_calls >>
flVars == << fl_loc, fl_out >>

FileNames == { "FactAwards.csv", "DimRecipients.csv", "DimSubAgencies.csv",
               "DimAgencies.csv", "usaspending_debug_output.csv" }

Init ==
    /\ prog \in {"fm", "dbg", "v1"}
    /\ pc = IF prog = "v1" THEN "token" ELSE "fetch"
    /\ err = "none"
    /\ page = 1
    /\ reqs = << >>
    /\ resps = << >>
    /\ all_raw = << >>
    /\ i = 1
    /\ fact_awards = << >>
    /\ recipients_by_id = << >>
    /\ subagencies_by_code = << >>
    /\ agencies_by_code = << >>
    /\ all_transformed = << >>
    /\ files = [f \in FileNames |-> << >>]
    /\ cur = << >>
    /\ batch = << >>
    /\ sink_calls = << >>
    /\ fl_loc = None
    /\ fl_out = None

\* what is left of the data set for the next page
Budget == MaxTotal - SumCounts(resps)

(***************************************************************************)
(* get_usaspending_page and the page loops.                                *)
(***************************************************************************)
\* resp.raise_for_status(): a non-success status raises
RaisesSwallowed(r) == FALSE
Raises(r) == ~r.ok

\* `if not results: break`
NoResultsIgnored(results) == FALSE
NoResults(results) == results = << >>

\* all_raw.extend(results)
ExtendReplaces(acc, results) == results
Extend(acc, results) == acc \o results

\* the request of page `page` and its response r
Request(r) ==
    /\ reqs' = Append(reqs, page)
    /\ resps' = Append(resps, r)

\* fetch_and_model: one iteration of `for page in range(1, MAX_PAGES + 1)`
FMFetch ==
    /\ prog = "fm" /\ pc = "fetch" /\ page <= MAX_PAGES
    /\ \E r \in Responses(prog, Budget) :
         /\ Request(r)
         /\ IF Raises(r)
            THEN /\ pc' = "failed" /\ err' = "fetch"
                 /\ UNCHANGED << page, all_raw >>
            ELSE LET results == ResultsOf(r.data)
                     raw == IF NoResults(results) THEN all_raw ELSE Extend(all_raw, results)
                     stop == NoResults(results) \/ ~HasNext(r.data) \/ page = MAX_PAGES
                 IN  /\ all_raw' = raw
                     /\ page' = IF stop THEN page ELSE page + 1
                     /\ pc' = IF ~stop THEN "fetch"
                              ELSE IF raw = << >> THEN "done" ELSE "facts"
                     /\ err' = err
    /\ UNCHANGED << flVars, prog, i, fmVars, all_transformed, files, v1Vars >>

\* pc and i after the body of a for-loop over all_raw has run for all_raw[i]
LoopNext(this, next) ==
    IF i < Len(all_raw)
    THEN /\ i' = i + 1 /\ pc' = this
    ELSE /\ i' = 1 /\ pc' = next

\* fetch_and_model: one iteration of the FactAwards loop
FMFact ==
    /\ prog = "fm" /\ pc = "facts"
    /\ fact_awards' = Append(fact_awards, FactRow(all_raw[i]))
    /\ LoopNext("facts", "recipients")
    /\ UNCHANGED << flVars, prog, err, page, reqs, resps, all_raw, recipients_by_id,
                    subagencies_by_code, agencies_by_code, all_transformed,
                    files, v1Vars >>

\* fetch_and_model: one iteration of the DimRecipients loop
FMRecipient ==
    /\ prog = "fm" /\ pc = "recipients"
    /\ recipients_by_id' = MergeRecipient(recipients_by_id, all_raw[i])
    /\ LoopNext("recipients", "subagencies")
    /\ UNCHANGED << flVars, prog, err, page, reqs, resps, all_raw, fact_awards,
                    subagencies_by_code, agencies_by_code, all_transformed,
                    files, v1Vars >>

\* fetch_and_model: one iteration of the DimSubAgencies loop
FMSubAgency ==
    /\ prog = "fm" /\ pc = "subagencies"
    /\ subagencies_by_code' = MergeSubAgency(subagencies_by_code, all_raw[i])
    /\ LoopNext("subagencies", "agencies")
    /\ UNCHANGED << flVars, prog, err, page, reqs, resps, all_raw, fact_awards,
                    recipients_by_id, agencies_by_code, all_transformed,
                    files, v1Vars >>

\* fetch_and_model: one iteration of the DimAgencies loop
FMAgency ==
    /\ prog = "fm" /\ pc = "agencies"
    /\ agencies_by_code' = MergeAgency(agencies_by_code, all_raw[i])
    /\ LoopNext("agencies", "write")
    /\ UNCHANGED << flVars, prog, err, page, reqs, resps, all_raw, fact_awards,
                    recipients_by_id, subagencies_by_code, all_transformed,
                    files, v1Vars >>

\* fetch_and_model: the four write_csv calls
FMWrite ==
    /\ prog = "fm" /\ pc = "write"
    /\ files' = write_csv(write_csv(write_csv(write_csv(files,
                    "FactAwards.csv", fact_awards),
                    "DimRecipients.csv", DictValues(recipients_by_id)),
                    "DimSubAgencies.csv", DictValues(subagencies_by_code)),
                    "DimAgencies.csv", DictValues(agencies_by_code))
    /\ pc' = "done"
    /\ UNCHANGED << flVars, prog, err, page, reqs, resps, all_raw, i, fmVars,
                    all_transformed, v1Vars >>

\* fetch_all_debug: one iteration of `for page in range(1, MAX_PAGES + 1)`
DbgFetch ==
    /\ prog = "dbg" /\ pc = "fetch" /\ page <= MAX_PAGES
    /\ \E r \in Responses(prog, Budget) :
         /\ Request(r)
         /\ IF Raises(r)
            THEN /\ pc' = "failed" /\ err' = "fetch"
                 /\ UNCHANGED << page, all_raw, all_transformed >>
            ELSE LET results == ResultsOf(r.data)
                     stop == NoResults(results) \/ ~HasNext(r.data) \/ page = MAX_PAGES
                 IN  /\ all_raw' = IF NoResults(results) THEN all_raw
                                   ELSE Extend(all_raw, results)
                     /\ all_transformed' =
                            IF NoResults(results) THEN all_transformed
                            ELSE Extend(all_transformed,
                                        TransformAll(results))
                     /\ page' = IF stop THEN page ELSE page + 1
                     /\ pc' = IF stop THEN "write" ELSE "fetch"
                     /\ err' = err
    /\ UNCHANGED << flVars, prog, i, fmVars, files, v1Vars >>

\* fetch_all_debug: the CSV is written when there are transformed rows
DbgWrite ==
    /\ prog = "dbg" /\ pc = "write"
    /\ files' = write_csv(files, "usaspending_debug_output.csv", all_transformed)
    /\ pc' = "done"
    /\ UNCHANGED << flVars, prog, err, page, reqs, resps, all_raw, i, fmVars,
                    all_transformed, v1Vars >>

(***************************************************************************)
(* USAspendV1.py: main() and the generator iter_usaspending().             *)
(***************************************************************************)
\* main(): token = get_access_token().  The token endpoint answers or the
\* call raises (a non-success status, or the NameError of the configuration
\* names PBI_TENANT_ID, PBI_CLIENT_ID, PBI_CLIENT_SECRET that the file reads
\* but does not define).
AfterTokenSwallowed(ok) == "fetch"
AfterToken(ok) == IF ok THEN "fetch" ELSE "failed"

V1Token ==
    /\ prog = "v1" /\ pc = "token"
    /\ \E ok \in BOOLEAN :
         /\ pc' = AfterToken(ok)
         /\ err' = IF ok THEN err ELSE "auth"
    /\ UNCHANGED << flVars, prog, page, reqs, resps, all_raw, i, fmVars,
                    all_transformed, files, v1Vars >>

\* iter_usaspending: the head of one iteration of `while True`
V1Fetch ==
    /\ prog = "v1" /\ pc = "fetch"
    /\ \E r \in Responses(prog, Budget) :
         /\ Request(r)
         /\ IF Raises(r)
            THEN /\ pc' = "failed" /\ err' = "fetch"
                 /\ UNCHANGED << cur, i, page >>
            ELSE LET results == ResultsOf(r.data)
                 IN  /\ err' = err
                     /\ IF NoResults(results)
                        THEN /\ pc' = "final" /\ UNCHANGED << cur, i, page >>
                        ELSE IF Len(results) = 0
                        THEN \* `for r in results` yields nothing; page += 1
                             /\ pc' = "fetch" /\ page' = page + 1
                             /\ UNCHANGED << cur, i >>
                        ELSE /\ pc' = "yield" /\ cur' = results /\ i' = 1
                             /\ page' = page
    /\ UNCHANGED << flVars, prog, all_raw, fmVars, all_transformed, files,
                    batch, sink_calls >>

\* the generator resumes after main() has handled cur[i]: the next record of
\* the page, or `page += 1` and the next request
ResumeSamePage ==
    IF i < Len(cur)
    THEN /\ i' = i + 1 /\ pc' = "yield" /\ page' = page
    ELSE /\ i' = 1 /\ pc' = "fetch" /\ page' = page
ResumeDropsRest == i' = 1 /\ pc' = "fetch" /\ page' = page + 1
Resume ==
    IF i < Len(cur)
    THEN /\ i' = i + 1 /\ pc' = "yield" /\ page' = page
    ELSE /\ i' = 1 /\ pc' = "fetch" /\ page' = page + 1

\* main(): `if len(batch) >= batch_size`
BatchFullLate(b) == Len(b) > batch_size
BatchFull(b) == Len(b) >= batch_size

\* main(): batch.append(transform_for_pbi(rec)); if len(batch) >= batch_size
V1Yield ==
    /\ prog = "v1" /\ pc = "yield"
    /\ batch' = Append(batch, transform_for_pbi(cur[i]))
    /\ IF BatchFull(batch')
       THEN /\ pc' = "push" /\ UNCHANGED << i, page >>
       ELSE Resume
    /\ UNCHANGED << flVars, prog, err, reqs, resps, all_raw, fmVars, all_transformed,
                    files, cur, sink_calls >>

\* push_batch_to_powerbi: no call for an empty list of rows, else one POST
\* of all the rows, whose outcome is ok
SinkCall(calls, rows, ok) ==
    IF rows = << >> THEN calls ELSE Append(calls, [rows |-> rows, ok |-> ok])

\* push_batch_to_powerbi: resp.raise_for_status()
PushRaises(rows, ok) == rows # << >> /\ ~ok

\* main(): `batch = []` is reached only when the push did not raise
BatchAfterPushCleared(rows, raised) == << >>
BatchAfterPushKept(rows, raised) == rows
BatchAfterPush(rows, raised) == IF raised THEN rows ELSE << >>

\* main(): push_batch_to_powerbi(token, batch); batch = []
V1Push ==
    /\ prog = "v1" /\ pc = "push"
    /\ \E ok \in BOOLEAN :
         /\ sink_calls' = SinkCall(sink_calls, batch, ok)
         /\ batch' = BatchAfterPush(batch, PushRaises(batch, ok))
         /\ IF PushRaises(batch, ok)
            THEN /\ pc' = "failed" /\ err' = "sink" /\ UNCHANGED << i, page >>
            ELSE /\ err' = err /\ Resume
    /\ UNCHANGED << flVars, prog, reqs, resps, all_raw, fmVars, all_transformed,
                    files, cur >>

\* main(): `if batch: push_batch_to_powerbi(token, batch)` after the loop
V1Final ==
    /\ prog = "v1" /\ pc = "final"
    /\ \E ok \in BOOLEAN :
         /\ sink_calls' = SinkCall(sink_calls, batch, ok)
         /\ IF PushRaises(batch, ok)
            THEN /\ pc' = "failed" /\ err' = "sink"
            ELSE /\ pc' = "done" /\ err' = err
    /\ UNCHANGED << flVars, prog, page, reqs, resps, all_raw, i, fmVars,
                    all_transformed, files, cur, batch >>

Next ==
    \/ FMFetch \/ FMFact \/ FMRecipient \/ FMSubAgency \/ FMAgency \/ FMWrite
    \/ DbgFetch \/ DbgWrite
    \/ V1Token \/ V1Fetch \/ V1Yield \/ V1Push \/ V1Final

Spec == Init /\ [][Next]_vars

TypeOK ==
    /\ prog \in {"fm", "dbg", "v1"}
    /\ pc \in {"token", "fetch", "facts", "recipients", "subagencies", "agencies",
               "write", "yield", "push", "final", "done", "failed"}
    /\ err \in {"none", "fetch", "auth", "sink"}
    /\ page \in 1..(MaxTotal + 1)
    /\ Len(reqs) = Len(resps)

(***************************************************************************)
(* flatten_location called alone, on every location of a bounded family:   *)
(* each address line is missing, null, empty or a street line, each other  *)
(* field is missing, null or a name.                                       *)
(***************************************************************************)
Absent == [absent |-> TRUE]

LineKeys == << "address_line1", "address_line2", "address_line3" >>
LineText == << "123 Main", "Floor 2", "Suite 4" >>
OtherKeys == { "city_name", "state_name", "state_code", "country_name" }
LocKeys == { LineKeys[n] : n \in 1..3 } \cup OtherKeys

LocChoices ==
    { f \in [LocKeys -> {Absent, None, S(""), S("X"),
                         S(LineText[1]), S(LineText[2]), S(LineText[3])}] :
        /\ \A n \in 1..3 :
             f[LineKeys[n]] \in {Absent, None, S(""), S(LineText[n])}
        /\ \A k \in OtherKeys : f[k] \in {Absent, None, S("X")} }

LocOf(f) == M([k \in { x \in LocKeys : f[x] # Absent } |-> f[k]])

LocInputs == {None} \cup { LocOf(f) : f \in LocChoices }

InitFlatten ==
    /\ prog = "flatten_location"
    /\ pc = "call"
    /\ err = "none"
    /\ page = 1
    /\ reqs = << >>
    /\ resps = << >>
    /\ all_raw = << >>
    /\ i = 1
    /\ fact_awards = << >>
    /\ recipients_by_id = << >>
    /\ subagencies_by_code = << >>
    /\ agencies_by_code = << >>
    /\ all_transformed = << >>
    /\ files = [f \in FileNames |-> << >>]
    /\ cur = << >>
    /\ batch = << >>
    /\ sink_calls = << >>
    /\ fl_loc \in LocInputs
    /\ fl_out = None

FlattenCall ==
    /\ prog = "flatten_location"
    /\ pc = "call"
    /\ fl_out' = flatten_location(fl_loc)
    /\ pc' = "returned"
    /\ UNCHANGED << fl_loc, prog, err, page, reqs, resps, all_raw, i, fmVars,
                    all_transformed, files, v1Vars >>

NextFlatten == FlattenCall

SpecFlatten == InitFlatten /\ [][NextFlatten]_vars

(***************************************************************************)
(* Notions the properties share.                                           *)
(***************************************************************************)
RECURSIVE FetchedRecords(_)
\* the records of all the pages received, in arrival order
FetchedRecords(rs) ==
    IF rs = << >> THEN << >>
    ELSE ResultsOf(Head(rs).data) \o FetchedRecords(Tail(rs))

Last(s) == s[Len(s)]

\* the three dimension tables, the source key of their natural id and the
\* merge step of each
Tables == << recipients_by_id, subagencies_by_code, agencies_by_code >>
IdKey == << "recipient_id", "Awarding Sub Agency Code", "Awarding Agency Code" >>
Stage == << "recipients", "subagencies", "agencies" >>
Merge(t, tbl, rec) ==
    CASE t = 1 -> MergeRecipient(tbl, rec)
      [] t = 2 -> MergeSubAgency(tbl, rec)
      [] OTHER -> MergeAgency(tbl, rec)

\* the field of table t's rows that holds the natural id
IdField(t) ==
    CASE t = 1 -> "RecipientId"
      [] t = 2 -> "AwardingSubAgencyCode"
      [] OTHER -> "AwardingAgencyCode"

\* the fragment a record carries for table t: the entry it creates in an
\* empty table
Fragment(t, rec) == Merge(t, << >>, rec)[1].v

\* fetch_and_model has finished the loop that builds table t
Built(t) ==
    /\ prog = "fm"
    /\ pc \in CASE t = 1 -> {"subagencies", "agencies", "write", "done"}
                [] t = 2 -> {"agencies", "write", "done"}
                [] OTHER -> {"write", "done"}
    /\ all_raw # << >>

\* C1: when the page loop has ended, fetch_and_model's fact rows (and
\* fetch_all_debug's transformed rows) are the rows of the records of all the
\* pages fetched, one per record, in order: their number is the sum of the
\* pages' result counts.
C1_FactRowsEqualFetched ==
    /\ (prog = "fm" /\ pc \in {"recipients", "subagencies", "agencies", "write", "done"})
          => /\ Len(fact_awards) = SumCounts(resps)
             /\ fact_awards = FactRows(FetchedRecords(resps))
    /\ (prog = "fm" /\ pc = "done" /\ fact_awards = << >>)
          => SumCounts(resps) = 0
    /\ (prog = "dbg" /\ pc \in {"write", "done"})
          => /\ Len(all_transformed) = SumCounts(resps)
             /\ all_transformed = TransformAll(FetchedRecords(resps))

C1_Witness ==
    /\ prog = "fm" /\ pc = "done"
    /\ Len(resps) = 2 /\ Len(ResultsOf(resps[1].data)) = 2
    /\ Len(ResultsOf(resps[2].data)) = 1 /\ ~HasNext(resps[2].data)
    /\ Len(fact_awards) = 3

C3_NullFill ==
    [][ \A t \in 1..3 :
          (prog = "fm" /\ pc = Stage[t] /\ Truthy(Get(all_raw[i], IdKey[t])))
             => \A n \in 1..Len(Tables[t]) :
                  Tables[t][n].k = Get(all_raw[i], IdKey[t])
                     => \A f \in DOMAIN Tables[t][n].v :
                          (~Truthy(Tables[t][n].v[f])
                              /\ Truthy(Fragment(t, all_raw[i])[f]))
                             => Tables'[t][n].v[f] = Fragment(t, all_raw[i])[f] ]_vars

\* the ids of source field key among the fetched records, but for those in not
SeenIds(key, not) ==
    LET recs == FetchedRecords(resps)
    IN  { Get(recs[n], key) : n \in 1..Len(recs) } \ not

\* C4 as claimed: a built dimension table has exactly one entry per distinct
\* non-null natural id of the fetched records.
C4_OneEntryPerNonNullId ==
    \A t \in 1..3 :
       Built(t) => /\ DictKeys(Tables[t]) = SeenIds(IdKey[t], {None})
                   /\ Len(Tables[t]) = Cardinality(DictKeys(Tables[t]))

\* C4 amended: a built dimension table has exactly one entry per distinct
\* non-empty natural id of the fetched records: an id that is null, missing
\* or the empty string has no entry.
C4_OneEntryPerNonEmptyId ==
    \A t \in 1..3 :
       Built(t) => /\ DictKeys(Tables[t]) = SeenIds(IdKey[t], {None, S(""), M(EmptyMap)})
                   /\ Len(Tables[t]) = Cardinality(DictKeys(Tables[t]))
                   /\ Len(Tables[t]) <= Cardinality(SeenIds(IdKey[t], {None}))
                   /\ \A n \in 1..Len(Tables[t]) :
                        Tables[t][n].v[IdField(t)] = Tables[t][n].k

\* R1 seen twice and R2 once: two recipient entries for three records
C4_Witness ==
    /\ prog = "fm" /\ pc = "done"
    /\ Len(all_raw) = 3
    /\ DictKeys(recipients_by_id) = {S("R1"), S("R2")}
    /\ Len(recipients_by_id) = 2

\* a successful response with no record
EmptyPage(r) == r.ok /\ ResultsOf(r.data) = << >>

\* a successful response with records whose metadata says hasNext = false
LastPage(r) ==
    /\ r.ok /\ ResultsOf(r.data) # << >>
    /\ "page_metadata" \in DOMAIN r.data
    /\ "hasNext" \in DOMAIN r.data["page_metadata"]
    /\ ~r.data["page_metadata"]["hasNext"]

\* C5 as claimed: in every page loop a page that reports hasNext = false is
\* the last page requested.
C5_HasNextFalseStops ==
    \A k \in 1..Len(resps) : LastPage(resps[k]) => k = Len(resps)

\* C6 as claimed: no page loop requests more pages than the page cap.
C6_PageCap == Len(reqs) <= MAX_PAGES

\* C7: in every page loop no page is requested after an empty page, whatever
\* its hasNext says, and the step that receives an empty page adds no record,
\* no row and no dimension entry.
C7_EmptyPageStops ==
    [][ /\ (resps # << >> /\ EmptyPage(Last(resps))) => reqs' = reqs
        /\ (Len(resps') = Len(resps) + 1 /\ EmptyPage(Last(resps')))
              => /\ all_raw' = all_raw
                 /\ all_transformed' = all_transformed
                 /\ fmVars' = fmVars
                 /\ cur' = cur /\ batch' = batch /\ sink_calls' = sink_calls
                 /\ pc' \in {"facts", "done", "write", "final"} ]_vars

\* page 2 came back empty with hasNext = true and the loop has ended
C7_Witness ==
    /\ Len(resps) = 2 /\ EmptyPage(resps[2]) /\ HasNext(resps[2].data)
    /\ Len(reqs) = 2
    /\ pc \in {"facts", "write", "final"}

\* the rows of the calls of the sink that succeeded
RECURSIVE Delivered(_)
Delivered(calls) ==
    IF calls = << >> THEN << >>
    ELSE (IF Head(calls).ok THEN Head(calls).rows ELSE << >>) \o Delivered(Tail(calls))

\* C8: a push hands the whole buffer to the sink in one call; the buffer is
\* emptied only by a push that succeeded; a failed push leaves the buffer as
\* it was and ends the run, after which no page is requested and no batch is
\* pushed; the calls made before stay as they were.
C8_FlushAtomicHaltOnFailure ==
    [][ /\ sink_calls' # sink_calls
           => /\ Len(sink_calls') = Len(sink_calls) + 1
              /\ Last(sink_calls').rows = batch /\ batch # << >>
              /\ ~Last(sink_calls').ok
                    => batch' = batch /\ pc' = "failed" /\ reqs' = reqs
        /\ \A n \in 1..Len(sink_calls) :
              Len(sink_calls') >= n /\ sink_calls'[n] = sink_calls[n]
        /\ (batch # << >> /\ batch' = << >>)
           => /\ sink_calls' = Append(sink_calls, [rows |-> batch, ok |-> TRUE])
        /\ (sink_calls # << >> /\ ~Last(sink_calls).ok)
           => /\ reqs' = reqs /\ sink_calls' = sink_calls /\ batch' = batch ]_vars

\* a first batch was delivered, then a push failed: the buffer holds the rows
\* of the failed batch
C8_Witness ==
    /\ prog = "v1" /\ pc = "failed" /\ err = "sink"
    /\ Len(sink_calls) = 2 /\ sink_calls[1].ok /\ ~sink_calls[2].ok
    /\ batch = sink_calls[2].rows /\ batch # << >>

\* the rows the caller of the script can get at: the rows of the files
\* written and the rows delivered to the sink
AvailableRows ==
    CASE prog = "fm" -> files["FactAwards.csv"]
      [] prog = "dbg" -> files["usaspending_debug_output.csv"]
      [] OTHER -> Delivered(sink_calls)

\* C9 as claimed: when the fetch of a page k > 1 fails, the rows of the pages
\* 1..k-1 remain available to the caller.
C9_PartialRowsAvailable ==
    (pc = "failed" /\ err = "fetch" /\ Len(reqs) > 1)
       => Len(AvailableRows) = SumCounts(resps)

\* a non-success response was received
HadFetchError == \E k \in 1..Len(resps) : ~resps[k].ok

\* C10: after a non-success response of the search endpoint no page is
\* requested, no file is written and no batch is pushed; the scripts that
\* write files have then written none.
C10_FetchErrorFatal ==
    [][ /\ HadFetchError => /\ reqs' = reqs
                            /\ files' = files
                            /\ sink_calls' = sink_calls
        /\ (HadFetchError' /\ prog' # "v1")
              => \A f \in FileNames : files'[f] = << >>
        /\ (~HadFetchError /\ HadFetchError')
              => pc' = "failed" /\ batch' = batch ]_vars

\* push mode: page 3 failed while a row was waiting in the buffer
C10_Witness ==
    /\ prog = "v1" /\ pc = "failed" /\ err = "fetch"
    /\ Len(resps) = 3 /\ ~resps[3].ok
    /\ batch # << >> /\ Len(sink_calls) = 1

\* C11: in every dimension table, merging a fragment a second time changes
\* nothing: for every value the table takes while it is built and every record
\* the endpoint can serve, merging the record twice gives the table that
\* merging it once gives;
\* and in the run itself the table is the same before and after the merge of
\* a record equal to the one merged just before it.
C11_MergeIdempotent ==
    [][ /\ \A t \in 1..3 :
             (prog = "fm" /\ pc \in {Stage[t], "write"})
                => \A rec \in Pool("fm") :
                     Merge(t, Merge(t, Tables[t], rec), rec)
                        = Merge(t, Tables[t], rec)
        /\ \A t \in 1..3 :
             (prog = "fm" /\ pc = Stage[t] /\ i > 1 /\ all_raw[i] = all_raw[i-1])
                => Tables'[t] = Tables[t] ]_vars

\* the same record, with a recipient id, was merged twice in a row into a
\* recipient table that its first merge changed
C11_Witness ==
    /\ Built(1)
    /\ \E a \in 1..(Len(all_raw) - 1) :
         /\ all_raw[a] = all_raw[a+1]
         /\ Truthy(Get(all_raw[a], "recipient_id"))
         /\ a > 1
         /\ Fragment(1, all_raw[a]) # Fragment(1, all_raw[a-1])
         /\ Get(all_raw[a-1], "recipient_id") = Get(all_raw[a], "recipient_id")

\* C12: flatten_location returns as Address the address lines 1..3 that are
\* neither null, missing nor empty, in order and joined with ", "
\* (["123 Main", "", "Suite 4"] gives "123 Main, Suite 4"); Address is null
\* when no line is left; a null or empty location gives five null fields.
AddressOf(l1, l2, l3) ==
    LET t1 == l1 \notin {None, S("")}
        t2 == l2 \notin {None, S("")}
        t3 == l3 \notin {None, S("")}
    IN  CASE t1 /\ t2 /\ t3    -> S(l1.str \o ", " \o l2.str \o ", " \o l3.str)
          [] t1 /\ t2 /\ ~t3   -> S(l1.str \o ", " \o l2.str)
          [] t1 /\ ~t2 /\ t3   -> S(l1.str \o ", " \o l3.str)
          [] ~t1 /\ t2 /\ t3   -> S(l2.str \o ", " \o l3.str)
          [] t1 /\ ~t2 /\ ~t3  -> l1
          [] ~t1 /\ t2 /\ ~t3  -> l2
          [] ~t1 /\ ~t2 /\ t3  -> l3
          [] ~t1 /\ ~t2 /\ ~t3 -> None

TheExample ==
    /\ fl_loc \notin {None, M(EmptyMap)}
    /\ Get(fl_loc.map, "address_line1") = S("123 Main")
    /\ Get(fl_loc.map, "address_line2") = S("")
    /\ Get(fl_loc.map, "address_line3") = S("Suite 4")

C12_FlattenAddress ==
    (prog = "flatten_location" /\ pc = "returned") =>
        /\ fl_loc \in {None, M(EmptyMap)} =>
             fl_out = [Address |-> None, City |-> None, StateName |-> None,
                       StateCode |-> None, Country |-> None]
        /\ fl_loc \notin {None, M(EmptyMap)} =>
             fl_out.Address = AddressOf(Get(fl_loc.map, "address_line1"),
                                        Get(fl_loc.map, "address_line2"),
                                        Get(fl_loc.map, "address_line3"))
        /\ TheExample => fl_out.Address = S("123 Main, Suite 4")

\* the call on the lines ["123 Main", "", "Suite 4"] has returned
C12_Witness ==
    /\ prog = "flatten_location"
    /\ pc = "returned"
    /\ TheExample
    /\ fl_out.Address = S("123 Main, Suite 4")

\* C13: in push mode the token is acquired before the page loop: until the
\* token call has returned no request has gone to the search endpoint and no
\* row to the sink, and a run whose token call failed has ended there, with
\* no request sent, no row buffered and no row pushed.
C13_TokenFailureAbortsBeforeLoop ==
    prog = "v1" =>
        /\ pc = "token" => (reqs = << >> /\ sink_calls = << >>)
        /\ err = "auth" =>
             /\ pc = "failed"
             /\ reqs = << >> /\ resps = << >>
             /\ batch = << >> /\ sink_calls = << >>

\* the token call has failed
C13_Witness == prog = "v1" /\ err = "auth" /\ pc = "failed"

\* what the finished tables show of the records whose id for table t is null
\* or missing: no entry under that id, one fact row at the record's place,
\* and an entry in every other table whose id the record carries
NullIdRecordsKept ==
    /\ Len(fact_awards) = Len(all_raw)
    /\ \A n \in 1..Len(all_raw) : \A t \in 1..3 :
         Get(all_raw[n], IdKey[t]) = None =>
            /\ ~DictHas(Tables[t], None)
            /\ fact_awards[n] = FactRow(all_raw[n])
            /\ \A u \in (1..3) \ {t} :
                 Truthy(Get(all_raw[n], IdKey[u]))
                    => DictHas(Tables[u], Get(all_raw[n], IdKey[u]))

\* C14: a record whose id for a dimension is null or missing leaves that
\* dimension's table as it was (no entry created, none changed), and it
\* still gives one fact row and an entry in each other dimension whose id it
\* carries.
C14_NullIdSkipsOnlyItsDimension ==
    [][ prog = "fm" =>
          /\ \A t \in 1..3 :
               (pc = Stage[t] /\ Get(all_raw[i], IdKey[t]) = None)
                  => Tables'[t] = Tables[t]
          /\ pc = "facts" => fact_awards' = Append(fact_awards, FactRow(all_raw[i]))
          /\ pc' = "write" => NullIdRecordsKept' ]_vars

\* the run has built its tables from records of which one has no recipient id
\* and no agency code but a sub-agency code, after a record that created a
\* recipient entry
C14_Witness ==
    /\ prog = "fm" /\ pc = "done"
    /\ recipients_by_id # << >>
    /\ \E n \in 2..Len(all_raw) :
         /\ Get(all_raw[n], "recipient_id") = None
         /\ Get(all_raw[n], "Awarding Agency Code") = None
         /\ Truthy(Get(all_raw[n], "Awarding Sub Agency Code"))
         /\ Truthy(Get(all_raw[n-1], "recipient_id"))
         /\ DictHas(subagencies_by_code, Get(all_raw[n], "Awarding Sub Agency Code"))
         /\ Len(fact_awards) = Len(all_raw)

\* the rows push mode owes for a sequence of records
PbiRows(recs) == [n \in 1..Len(recs) |-> transform_for_pbi(recs[n])]

\* every record received so far is normalized: fetch_and_model holds its fact
\* row and its dimension entries, fetch_all_debug its transformed row, push
\* mode its row in a delivered batch or in the buffer
AllNormalized ==
    LET recs == FetchedRecords(resps)
    IN  CASE prog = "fm" ->
               /\ fact_awards = FactRows(recs)
               /\ \A n \in 1..Len(recs) : \A t \in 1..3 :
                    Truthy(Get(recs[n], IdKey[t]))
                       => DictHas(Tables[t], Get(recs[n], IdKey[t]))
          [] prog = "dbg" -> all_transformed = TransformAll(recs)
          [] prog = "v1" -> Delivered(sink_calls) \o batch = PbiRows(recs)
          [] OTHER -> TRUE

\* every record received so far is taken into what the run accumulates, and
\* fetch_and_model has not started its fact rows and tables
AllAccumulated ==
    LET recs == FetchedRecords(resps)
    IN  CASE prog = "fm" ->
               /\ all_raw = recs
               /\ fact_awards = << >>
               /\ \A t \in 1..3 : Tables[t] = << >>
          [] prog = "dbg" ->
               /\ all_raw = recs
               /\ all_transformed = TransformAll(recs)
          [] prog = "v1" -> Delivered(sink_calls) \o batch = PbiRows(recs)
          [] OTHER -> TRUE

C16_PagesRequestedInSequence ==
    /\ \A n \in 1..Len(reqs) : reqs[n] = n
    /\ pc = "fetch" => page = Len(reqs) + 1

\* three pages were requested and answered, and the page loop has ended
C16_Witness ==
    /\ reqs = << 1, 2, 3 >>
    /\ \A n \in 1..3 : resps[n].ok
    /\ pc \notin {"fetch", "failed"}

RECURSIVE Pushed(_)
\* the rows handed to the sink, call after call, whatever the outcome
Pushed(calls) ==
    IF calls = << >> THEN << >>
    ELSE Head(calls).rows \o Pushed(Tail(calls))

IsPrefix(a, b) == Len(a) <= Len(b) /\ \A n \in 1..Len(a) : a[n] = b[n]

\* the rows handed to the sink so far are the first rows owed for the records
\* received, each handed once and in arrival order; after a run without error
\* the delivered batches make up all the rows owed
PushedOnceInOrder ==
    /\ IsPrefix(Pushed(sink_calls), PbiRows(FetchedRecords(resps)))
    /\ pc = "done" => Delivered(sink_calls) = PbiRows(FetchedRecords(resps))

\* C17, as stated: no row is pushed twice, the batches pushed by a run that
\* ends without error are, in order, the rows of the records fetched, and
\* the buffer is empty at the end of such a run.
C17_ExactlyOnceBufferEmpty ==
    prog = "v1" => (PushedOnceInOrder /\ (pc = "done" => batch = << >>))

\* C17, amended: no row is pushed twice, the batches pushed by a run that
\* ends without error are, in order, the rows of the records fetched, and at
\* the end of such a run the buffer holds no undelivered row: it is empty or
\* still holds the rows of the last batch, which the push after the loop
\* delivered without clearing the buffer.
C17_ExactlyOnceDelivery ==
    prog = "v1" =>
        /\ PushedOnceInOrder
        /\ pc = "done" =>
             \/ batch = << >>
             \/ /\ sink_calls # << >>
                /\ Last(sink_calls) = [rows |-> batch, ok |-> TRUE]

\* a run has ended without error after a push in the loop and a push after
\* the loop, the second one of rows the buffer still holds
C17_Witness ==
    /\ prog = "v1" /\ pc = "done"
    /\ Len(sink_calls) = 2
    /\ Len(sink_calls[1].rows) = batch_size
    /\ batch # << >>
    /\ sink_calls[2].rows = batch
    /\ Len(FetchedRecords(resps)) = batch_size + Len(batch)

\* C18: in push mode the buffer never holds more than batch_size rows; every
\* batch handed to the sink holds at least 1 and at most batch_size rows, and
\* exactly batch_size rows unless it is the last one; a run that has received
\* no record has made no sink call.
C18_BatchBound ==
    prog = "v1" =>
        /\ Len(batch) <= batch_size
        /\ \A n \in 1..Len(sink_calls) :
             /\ Len(sink_calls[n].rows) \in 1..batch_size
             /\ n < Len(sink_calls) => Len(sink_calls[n].rows) = batch_size
        /\ FetchedRecords(resps) = << >> => sink_calls = << >>

\* a full batch went to the sink in the loop and a shorter one after the loop
C18_Witness ==
    /\ prog = "v1" /\ pc = "done"
    /\ Len(sink_calls) = 2
    /\ sink_calls[1].ok /\ sink_calls[2].ok
    /\ Len(sink_calls[1].rows) = batch_size
    /\ Len(sink_calls[2].rows) \in 1..(batch_size - 1)

====
